---- MODULE Spec2Model ----
(***************************************************************************)
(* A model of the two-axis joystick driver of src/src/lib.rs.              *)
(*                                                                         *)
(* The driver (Axis, Joystick) is translated statement by statement.  Its  *)
(* collaborators are the environment: the one-shot ADC peripherals behind  *)
(* the Mutex<RefCell<_>> handles, the input pin of the switch, the global  *)
(* critical section, and a second execution context (an interrupt handler) *)
(* that uses the same ADC handles.                                         *)
(*                                                                         *)
(* An f32 is the record [m, e] standing for m * 2^e, kept normalised (m is *)
(* odd, or m = 0 and e = 0) and rounded to a 24 bit significand.           *)
(***************************************************************************)
EXTENDS Integers, Sequences, FiniteSets, TLC

VARIABLES
    shared,     \* TRUE: Joystick::new got the same ADC handle for both axes
    res,        \* the resolutions given to Joystick::new, per axis
    step,       \* Axis::_step, per axis
    kind,       \* per ADC resource: "blocking" or "oneshot" peripheral
    conv,       \* per ADC resource: the conversion the peripheral is busy with
    borrowed,   \* per ADC resource: the RefCell's mutable-borrow flag
    cs,         \* the owner of the global critical section
    pc,         \* the caller's position: idle, or inside Axis::read_raw
    op,         \* the Joystick method the caller is in
    cur,        \* the axis whose Axis::read is running
    raw,        \* the outcome of the ADC read of the running read_raw
    v,          \* the local v of get_position
    result,     \* what the last finished Joystick method returned
    log,        \* the ADC samples the running (or last) call has taken
    prev,       \* how the call before the running one ended
    pin,        \* what the input pin answered to the last is_high
    ipc,        \* the interrupt handler's position
    iacc        \* the ADC resource and channel the interrupt handler reads

vars == <<shared, res, step, kind, conv, borrowed, cs, pc, op, cur, raw, v,
          result, log, prev, pin, ipc, iacc>>

(***************************************************************************)
(* Bounds                                                                  *)
(***************************************************************************)
\* The largest resolution the scaling specification draws.
MaxResolution == 16

\* The largest resolution the construction specification draws.
MaxNewResolution == 33

\* The resolutions Joystick::new is given in the state machine.
Resolutions == {2, 8}

\* The raw words an ADC read may return in the state machine.
RawWords == {64, 128, 255}

\* The errors an ADC read may fail with.
AdcErrors == {"E1", "E2"}

\* The errors the input pin may fail with.
PinErrors == {"P1"}

Axes == {"V", "H"}

AdcKinds == {"blocking", "oneshot"}

(***************************************************************************)
(* Results: nb::Result and Result                                          *)
(***************************************************************************)
Ok(x) == [tag |-> "Ok", val |-> x]

WouldBlock == [tag |-> "WouldBlock"]

Other(e) == [tag |-> "Other", err |-> e]

PlainErr(e) == [tag |-> "Err", err |-> e]

NoResult == [tag |-> "None"]

VerticalADCError(e) == [axis |-> "VerticalADCError", e |-> e]

HorizontalADCError(e) == [axis |-> "HorizontalADCError", e |-> e]

(***************************************************************************)
(* f32 arithmetic                                                          *)
(***************************************************************************)
F32MantissaBits == 24

F32(m, e) == [m |-> m, e |-> e]

RECURSIVE Normalize(_, _)
Normalize(m, e) ==
    IF m = 0 THEN F32(0, 0)
    ELSE IF m % 2 = 0 THEN Normalize(m \div 2, e + 1)
    ELSE F32(m, e)

RECURSIVE Excess(_)
Excess(m) == IF m < 2^F32MantissaBits THEN 0 ELSE 1 + Excess(m \div 2)

\* m * 2^e rounded to the nearest f32, ties to even.
F32Round(m, e) ==
    LET k == Excess(m)
    IN  IF k = 0 THEN Normalize(m, e)
        ELSE LET q    == m \div (2^k)
                 rem  == m % (2^k)
                 half == 2^(k - 1)
                 up   == rem > half \/ (rem = half /\ q % 2 = 1)
             IN  Normalize(IF up THEN q + 1 ELSE q, e + k)

\* Word::into(): an unsigned word as f32.
WordToF32(w) == F32Round(w, 0)

F32Mul(a, b) == F32Round(a.m * b.m, a.e + b.e)

\* +infinity.
F32Inf == [inf |-> TRUE]

IsFinite(x) == "inf" \notin DOMAIN x

\* 1. / x for x zero or a power of two.
F32Recip(x) == IF x.m = 0 THEN F32Inf ELSE F32(1, 0 - x.e)

\* The width of u32.
U32Bits == 32

\* 2u32.pow(resolution as u32) overflows u32: a panic in a build with
\* overflow checks, the wrapped value 0 in a build without.
Pow2OverflowsNarrower(r) == r >= U32Bits - 1

Pow2Overflows(r) == r >= U32Bits

\* 2u32.pow(resolution as u32) as f32, when it does not panic.
Pow2F32OffByOne(r) == F32(1, r + 1)

Pow2F32(r) == IF Pow2Overflows(r) THEN F32(0, 0) ELSE F32(1, r)

\* Axis::new: the scale factor.
StepOf(r) == F32Recip(Pow2F32(r))

\* Axis::read: scale a raw word, pass anything else on.
AxisRead(st, rawOutcome) ==
    IF rawOutcome.tag = "Ok"
    THEN Ok(F32Mul(st, WordToF32(rawOutcome.val)))
    ELSE rawOutcome

(***************************************************************************)
(* Wiring                                                                  *)
(***************************************************************************)
\* The ADC resources in use.
AdcSet == IF shared THEN {"A0"} ELSE {"A0", "A1"}

\* The ADC resource an axis holds a reference to.
AdcOfAlwaysVertical(ax) == "A0"

AdcOf(ax) == IF shared \/ ax = "V" THEN "A0" ELSE "A1"

\* The channel of an axis (MockChan0, MockChan1 in the tests).
ChannelOf(ax) == IF ax = "V" THEN "Chan0" ELSE "Chan1"

Channels == {"Chan0", "Chan1"}

(***************************************************************************)
(* The ADC peripheral: OneShot::read                                       *)
(***************************************************************************)
Idle == [ch |-> "none", ready |-> FALSE]

Converting(ch) == [ch |-> ch, ready |-> FALSE]

Results == {Ok(w) : w \in RawWords} \cup {Other(e) : e \in AdcErrors}

\* What one read of channel ch may answer, and the state it leaves, when the
\* peripheral is of kind k and in conversion state c.
AdcResponses(k, c, ch) ==
    IF k = "blocking"
    THEN {[out |-> r, conv |-> Idle] : r \in Results}
    ELSE IF c.ch = "none"
    THEN {[out |-> WouldBlock, conv |-> Converting(ch)]}
    ELSE IF c.ch = ch
    THEN IF c.ready
         THEN {[out |-> r, conv |-> Idle] : r \in Results}
         ELSE {[out |-> WouldBlock, conv |-> c]}
    ELSE {[out |-> WouldBlock, conv |-> Idle],
          [out |-> WouldBlock, conv |-> Converting(ch)]}

\* The peripheral finishes the conversion it is busy with.
ConvFinish(a) ==
    /\ a \in AdcSet
    /\ conv[a].ch # "none"
    /\ ~conv[a].ready
    /\ conv' = [conv EXCEPT ![a].ready = TRUE]
    /\ UNCHANGED <<shared, res, step, kind, borrowed, cs, pc, op, cur, raw, v,
                   result, log, prev, pin, ipc, iacc>>

ConvFinishAny == \E a \in {"A0", "A1"} : ConvFinish(a)

(***************************************************************************)
(* The input pin: InputPin::is_high                                        *)
(***************************************************************************)
PinLevels == {"High", "Low"}

PinAnswers == PinLevels \cup PinErrors

IsHigh(p) == IF p \in PinErrors THEN PlainErr(p) ELSE Ok(p = "High")

IsLow(p) == IF p \in PinErrors THEN PlainErr(p) ELSE Ok(p = "Low")

(***************************************************************************)
(* Init: the state after Joystick::new                                     *)
(***************************************************************************)
Init ==
    /\ shared \in BOOLEAN
    /\ res \in [Axes -> Resolutions]
    /\ step = [ax \in Axes |-> StepOf(res[ax])]
    /\ kind \in [AdcSet -> AdcKinds]
    /\ conv = [a \in AdcSet |-> Idle]
    /\ borrowed = [a \in AdcSet |-> FALSE]
    /\ cs = "none"
    /\ pc = "idle"
    /\ op = "none"
    /\ cur = "V"
    /\ raw = NoResult
    /\ v = NoResult
    /\ result = NoResult
    /\ log = <<>>
    /\ prev = "none"
    /\ pin = "none"
    /\ ipc = "idle"
    /\ iacc = [adc |-> "A0", ch |-> "Chan0"]

(***************************************************************************)
(* The caller: the Joystick methods                                        *)
(***************************************************************************)
config == <<shared, res, step, kind>>

isr == <<ipc, iacc>>

\* How the call that just finished ended, kept for the next call to look at.
Summary ==
    IF op # "get_position" THEN "none"
    ELSE IF result.tag = "Ok" THEN "pair"
    ELSE IF result.tag = "Other" THEN "error"
    ELSE IF log[Len(log)].axis = "V" THEN "v_wouldblock"
    ELSE "h_wouldblock"

\* The caller enters a method that starts with Axis::read of axis ax.
Enter(method, ax) ==
    /\ pc = "idle"
    /\ op' = method
    /\ cur' = ax
    /\ pc' = "acquire"
    /\ prev' = Summary
    /\ log' = <<>>
    /\ raw' = NoResult
    /\ v' = NoResult
    /\ result' = NoResult
    /\ pin' = "none"
    /\ UNCHANGED <<config, conv, borrowed, cs, isr>>

\* get_vertical: self.vertical.read()
CallGetVerticalWrongAxis == Enter("get_vertical", "H")

CallGetVertical == Enter("get_vertical", "V")

\* get_horizontal: self.horizontal.read()
CallGetHorizontal == Enter("get_horizontal", "H")

\* get_position starts with self.get_vertical(), whatever came before.
CallGetPositionHorizontalFirst == Enter("get_position", "H")

CallGetPositionResuming ==
    /\ pc = "idle"
    /\ op' = "get_position"
    /\ cur' = IF op = "get_position" /\ result = WouldBlock
                 /\ log # <<>> /\ log[Len(log)].axis = "H"
              THEN "H" ELSE "V"
    /\ pc' = "acquire"
    /\ prev' = Summary
    /\ log' = <<>>
    /\ raw' = NoResult
    /\ v' = IF cur' = "H" THEN Ok(F32(0, 0)) ELSE NoResult
    /\ result' = NoResult
    /\ pin' = "none"
    /\ UNCHANGED <<config, conv, borrowed, cs, isr>>

CallGetPosition == Enter("get_position", "V")

\* switch_pressed: self.switch.is_high()
SwitchPressedIsLow(p) == IsLow(p)

SwitchPressed(p) == IsHigh(p)

CallSwitchPressedSamplingAdc ==
    /\ pc = "idle"
    /\ \E p \in PinAnswers :
          /\ pin' = p
          /\ result' = SwitchPressed(p)
    /\ \E r \in AdcResponses(kind["A0"], conv["A0"], "Chan0") :
          /\ conv' = [conv EXCEPT !["A0"] = r.conv]
          /\ log' = <<[axis |-> "V", adc |-> "A0", ch |-> "Chan0", out |-> r.out]>>
    /\ op' = "switch_pressed"
    /\ prev' = Summary
    /\ UNCHANGED <<config, borrowed, cs, pc, cur, raw, v, isr>>

CallSwitchPressed ==
    /\ pc = "idle"
    /\ \E p \in PinAnswers :
          /\ pin' = p
          /\ result' = SwitchPressed(p)
    /\ op' = "switch_pressed"
    /\ prev' = Summary
    /\ log' = <<>>
    /\ UNCHANGED <<config, conv, borrowed, cs, pc, cur, raw, v, isr>>

(***************************************************************************)
(* Axis::read_raw, in the caller's context                                 *)
(***************************************************************************)
\* critical_section::with(|cs| self.adc.borrow(cs).borrow_mut() ...: the
\* critical section is entered and the RefCell is borrowed mutably, which
\* panics when it is borrowed already.
MainAcquireUnprotected ==
    /\ pc = "acquire"
    /\ pc' = "sample"
    /\ UNCHANGED <<config, conv, borrowed, cs, op, cur, raw, v, result, log,
                   prev, pin, isr>>

MainAcquireNoCriticalSection ==
    /\ pc = "acquire"
    /\ IF borrowed[AdcOf(cur)]
       THEN /\ pc' = "panicked"
            /\ UNCHANGED borrowed
       ELSE /\ pc' = "sample"
            /\ borrowed' = [borrowed EXCEPT ![AdcOf(cur)] = TRUE]
    /\ UNCHANGED <<config, conv, cs, op, cur, raw, v, result, log, prev, pin,
                   isr>>

MainAcquire ==
    /\ pc = "acquire"
    /\ cs = "none"
    /\ cs' = "main"
    /\ IF borrowed[AdcOf(cur)]
       THEN /\ pc' = "panicked"
            /\ UNCHANGED borrowed
       ELSE /\ pc' = "sample"
            /\ borrowed' = [borrowed EXCEPT ![AdcOf(cur)] = TRUE]
    /\ UNCHANGED <<config, conv, op, cur, raw, v, result, log, prev, pin, isr>>

\* ... .read(&mut self.channel): one sample of this axis's channel.
MainSample ==
    /\ pc = "sample"
    /\ LET a == AdcOf(cur)
       IN  \E r \in AdcResponses(kind[a], conv[a], ChannelOf(cur)) :
             /\ conv' = [conv EXCEPT ![a] = r.conv]
             /\ raw' = r.out
             /\ log' = Append(log, [axis |-> cur, adc |-> a,
                                    ch |-> ChannelOf(cur), out |-> r.out])
    /\ pc' = "release"
    /\ UNCHANGED <<config, borrowed, cs, op, cur, v, result, prev, pin, isr>>

\* get_position after the read of axis ax gave val (the matches of lines
\* 126-148): return, or go on to the horizontal read with v bound.
PositionAfterIgnoringWouldBlock(ax, val, vv) ==
    IF ax = "V"
    THEN IF val.tag = "Other"
         THEN [ret |-> TRUE, result |-> Other(VerticalADCError(val.err)), v |-> vv]
         ELSE [ret |-> FALSE, result |-> NoResult, v |-> val]
    ELSE IF val.tag = "Ok"
         THEN [ret |-> TRUE, result |-> Ok(<<vv.val, val.val>>), v |-> vv]
         ELSE IF val.tag = "WouldBlock"
         THEN [ret |-> TRUE, result |-> WouldBlock, v |-> vv]
         ELSE [ret |-> TRUE, result |-> Other(HorizontalADCError(val.err)), v |-> vv]

PositionAfterTagsSwapped(ax, val, vv) ==
    IF ax = "V"
    THEN IF val.tag = "Ok"
         THEN [ret |-> FALSE, result |-> NoResult, v |-> val]
         ELSE IF val.tag = "WouldBlock"
         THEN [ret |-> TRUE, result |-> WouldBlock, v |-> vv]
         ELSE [ret |-> TRUE, result |-> Other(HorizontalADCError(val.err)), v |-> vv]
    ELSE IF val.tag = "Ok"
         THEN [ret |-> TRUE, result |-> Ok(<<vv.val, val.val>>), v |-> vv]
         ELSE IF val.tag = "WouldBlock"
         THEN [ret |-> TRUE, result |-> WouldBlock, v |-> vv]
         ELSE [ret |-> TRUE, result |-> Other(VerticalADCError(val.err)), v |-> vv]

PositionAfterPairSwapped(ax, val, vv) ==
    IF ax = "V"
    THEN IF val.tag = "Ok"
         THEN [ret |-> FALSE, result |-> NoResult, v |-> val]
         ELSE IF val.tag = "WouldBlock"
         THEN [ret |-> TRUE, result |-> WouldBlock, v |-> vv]
         ELSE [ret |-> TRUE, result |-> Other(VerticalADCError(val.err)), v |-> vv]
    ELSE IF val.tag = "Ok"
         THEN [ret |-> TRUE, result |-> Ok(<<val.val, vv.val>>), v |-> vv]
         ELSE IF val.tag = "WouldBlock"
         THEN [ret |-> TRUE, result |-> WouldBlock, v |-> vv]
         ELSE [ret |-> TRUE, result |-> Other(HorizontalADCError(val.err)), v |-> vv]

PositionAfterIgnoringVerticalError(ax, val, vv) ==
    IF ax = "V"
    THEN IF val.tag = "WouldBlock"
         THEN [ret |-> TRUE, result |-> WouldBlock, v |-> vv]
         ELSE [ret |-> FALSE, result |-> NoResult, v |-> val]
    ELSE IF val.tag = "Ok"
         THEN [ret |-> TRUE, result |-> Ok(<<vv.val, val.val>>), v |-> vv]
         ELSE IF val.tag = "WouldBlock"
         THEN [ret |-> TRUE, result |-> WouldBlock, v |-> vv]
         ELSE [ret |-> TRUE, result |-> Other(HorizontalADCError(val.err)), v |-> vv]

PositionAfter(ax, val, vv) ==
    IF ax = "V"
    THEN IF val.tag = "Ok"
         THEN [ret |-> FALSE, result |-> NoResult, v |-> val]
         ELSE IF val.tag = "WouldBlock"
         THEN [ret |-> TRUE, result |-> WouldBlock, v |-> vv]
         ELSE [ret |-> TRUE, result |-> Other(VerticalADCError(val.err)), v |-> vv]
    ELSE IF val.tag = "Ok"
         THEN [ret |-> TRUE, result |-> Ok(<<vv.val, val.val>>), v |-> vv]
         ELSE IF val.tag = "WouldBlock"
         THEN [ret |-> TRUE, result |-> WouldBlock, v |-> vv]
         ELSE [ret |-> TRUE, result |-> Other(HorizontalADCError(val.err)), v |-> vv]

\* The closure returns: the borrow is dropped and the critical section left;
\* Axis::read scales the word and the Joystick method goes on with it.
MainReleaseHoldingAcrossAxes ==
    /\ pc = "release"
    /\ LET val == AxisRead(step[cur], raw)
       IN  IF op = "get_position"
           THEN LET nx == PositionAfter(cur, val, v)
                IN  IF nx.ret
                    THEN /\ result' = nx.result
                         /\ pc' = "idle"
                         /\ v' = NoResult
                         /\ raw' = NoResult
                         /\ borrowed' = [a \in AdcSet |-> FALSE]
                         /\ cs' = "none"
                         /\ UNCHANGED cur
                    ELSE /\ cur' = "H"
                         /\ v' = nx.v
                         /\ pc' = "acquire"
                         /\ UNCHANGED <<result, raw, borrowed, cs>>
           ELSE /\ result' = val
                /\ pc' = "idle"
                /\ raw' = NoResult
                /\ borrowed' = [borrowed EXCEPT ![AdcOf(cur)] = FALSE]
                /\ cs' = "none"
                /\ UNCHANGED <<cur, v>>
    /\ UNCHANGED <<config, conv, op, log, prev, pin, isr>>

MainReleaseRetrying ==
    /\ pc = "release"
    /\ borrowed' = [borrowed EXCEPT ![AdcOf(cur)] = FALSE]
    /\ cs' = "none"
    /\ IF raw = WouldBlock
       THEN /\ pc' = "acquire"
            /\ UNCHANGED <<cur, v, result, raw>>
       ELSE LET val == AxisRead(step[cur], raw)
            IN  IF op = "get_position"
                THEN LET nx == PositionAfter(cur, val, v)
                     IN  IF nx.ret
                         THEN /\ result' = nx.result
                              /\ pc' = "idle"
                              /\ v' = NoResult
                              /\ raw' = NoResult
                              /\ UNCHANGED cur
                         ELSE /\ cur' = "H"
                              /\ v' = nx.v
                              /\ pc' = "acquire"
                              /\ UNCHANGED <<result, raw>>
                ELSE /\ result' = val
                     /\ pc' = "idle"
                     /\ raw' = NoResult
                     /\ UNCHANGED <<cur, v>>
    /\ UNCHANGED <<config, conv, op, log, prev, pin, isr>>

MainRelease ==
    /\ pc = "release"
    /\ borrowed' = [borrowed EXCEPT ![AdcOf(cur)] = FALSE]
    /\ cs' = "none"
    /\ LET val == AxisRead(step[cur], raw)
       IN  IF op = "get_position"
           THEN LET nx == PositionAfter(cur, val, v)
                IN  IF nx.ret
                    THEN /\ result' = nx.result
                         /\ pc' = "idle"
                         /\ v' = NoResult
                         /\ raw' = NoResult
                         /\ UNCHANGED cur
                    ELSE /\ cur' = "H"
                         /\ v' = nx.v
                         /\ pc' = "acquire"
                         /\ UNCHANGED <<result, raw>>
           ELSE /\ result' = val
                /\ pc' = "idle"
                /\ raw' = NoResult
                /\ UNCHANGED <<cur, v>>
    /\ UNCHANGED <<config, conv, op, log, prev, pin, isr>>

(***************************************************************************)
(* Another execution context with the same ADC handles                     *)
(***************************************************************************)
\* It reads a channel of an ADC resource the way read_raw does: inside a
\* critical section, through the RefCell.
IsrAcquire ==
    /\ ipc = "idle"
    /\ cs = "none"
    /\ cs' = "isr"
    /\ \E a \in AdcSet, ch \in Channels :
          /\ iacc' = [adc |-> a, ch |-> ch]
          /\ IF borrowed[a]
             THEN /\ ipc' = "panicked"
                  /\ UNCHANGED borrowed
             ELSE /\ ipc' = "sample"
                  /\ borrowed' = [borrowed EXCEPT ![a] = TRUE]
    /\ UNCHANGED <<config, conv, pc, op, cur, raw, v, result, log, prev, pin>>

IsrSample ==
    /\ ipc = "sample"
    /\ \E r \in AdcResponses(kind[iacc.adc], conv[iacc.adc], iacc.ch) :
          conv' = [conv EXCEPT ![iacc.adc] = r.conv]
    /\ ipc' = "release"
    /\ UNCHANGED <<config, borrowed, cs, pc, op, cur, raw, v, result, log,
                   prev, pin, iacc>>

IsrRelease ==
    /\ ipc = "release"
    /\ borrowed' = [borrowed EXCEPT ![iacc.adc] = FALSE]
    /\ cs' = "none"
    /\ ipc' = "idle"
    /\ iacc' = [adc |-> "A0", ch |-> "Chan0"]
    /\ UNCHANGED <<config, conv, pc, op, cur, raw, v, result, log, prev, pin>>

(***************************************************************************)
(* Specifications                                                          *)
(***************************************************************************)
Next ==
    \/ CallGetVertical
    \/ CallGetHorizontal
    \/ CallGetPosition
    \/ CallSwitchPressed
    \/ MainAcquire
    \/ MainSample
    \/ MainRelease
    \/ IsrAcquire
    \/ IsrSample
    \/ IsrRelease
    \/ ConvFinishAny

Spec == Init /\ [][Next]_vars

\* A caller that keeps calling get_position, alone on the ADC resources; the
\* caller always takes its next step and a peripheral that stays busy with a
\* conversion finishes it.
CallerStep == CallGetPosition \/ MainAcquire \/ MainSample \/ MainRelease

FairNext ==
    \/ CallGetPosition
    \/ MainAcquire
    \/ MainSample
    \/ MainRelease
    \/ ConvFinishAny

FairSpec ==
    /\ Init
    /\ [][FairNext]_vars
    /\ WF_vars(CallerStep)
    /\ \A a \in {"A0", "A1"} : WF_vars(ConvFinish(a))

\* Axis::new and Axis::read on their own: every resolution up to
\* MaxResolution with every word of that many bits.
ScaleInit ==
    /\ shared = TRUE
    /\ res \in {[ax \in Axes |-> r] : r \in 1..MaxResolution}
    /\ step = [ax \in Axes |-> StepOf(res[ax])]
    /\ kind = [a \in AdcSet |-> "blocking"]
    /\ conv = [a \in AdcSet |-> Idle]
    /\ borrowed = [a \in AdcSet |-> FALSE]
    /\ cs = "none"
    /\ pc = "scale"
    /\ op = "none"
    /\ cur = "V"
    /\ raw \in {Ok(s) : s \in 0..(2^res["V"] - 1)}
    /\ v = NoResult
    /\ result = NoResult
    /\ log = <<>>
    /\ prev = "none"
    /\ pin = "none"
    /\ ipc = "idle"
    /\ iacc = [adc |-> "A0", ch |-> "Chan0"]

\* self.vertical.read() / self.horizontal.read() with read_raw giving raw.
ScaleRead(method, ax) ==
    /\ pc = "scale"
    /\ op' = method
    /\ cur' = ax
    /\ result' = AxisRead(step[ax], raw)
    /\ pc' = "scaled"
    /\ UNCHANGED <<config, conv, borrowed, cs, raw, v, log, prev, pin, isr>>

ScaleVertical == ScaleRead("get_vertical", "V")

ScaleHorizontal == ScaleRead("get_horizontal", "H")

ScaleNext == ScaleVertical \/ ScaleHorizontal

ScaleSpec == ScaleInit /\ [][ScaleNext]_vars

\* Joystick::new on its own: Axis::new for the vertical axis, then for the
\* horizontal one, with every pair of resolutions up to MaxNewResolution.
NewInit ==
    /\ shared \in BOOLEAN
    /\ res \in [Axes -> 0..MaxNewResolution]
    /\ step = [ax \in Axes |-> NoResult]
    /\ kind = [a \in AdcSet |-> "blocking"]
    /\ conv = [a \in AdcSet |-> Idle]
    /\ borrowed = [a \in AdcSet |-> FALSE]
    /\ cs = "none"
    /\ pc = "new"
    /\ op = "none"
    /\ cur = "V"
    /\ raw = NoResult
    /\ v = NoResult
    /\ result = NoResult
    /\ log = <<>>
    /\ prev = "none"
    /\ pin = "none"
    /\ ipc = "idle"
    /\ iacc = [adc |-> "A0", ch |-> "Chan0"]

\* Axis::new for axis cur, in a build with or without overflow checks.
NewAxis ==
    /\ pc = "new"
    /\ \E checks \in BOOLEAN :
          IF Pow2Overflows(res[cur]) /\ checks
          THEN /\ pc' = "panicked"
               /\ UNCHANGED <<step, cur>>
          ELSE /\ step' = [step EXCEPT ![cur] = StepOf(res[cur])]
               /\ IF cur = "V"
                  THEN cur' = "H" /\ pc' = "new"
                  ELSE cur' = "V" /\ pc' = "idle"
    /\ UNCHANGED <<shared, res, kind, conv, borrowed, cs, op, raw, v, result,
                   log, prev, pin, isr>>

NewSpec == NewInit /\ [][NewAxis]_vars

(***************************************************************************)
(* Properties of get_position, get_vertical, get_horizontal                *)
(***************************************************************************)
\* x = s / 2^r, exactly.
IsRatio(x, s, r) ==
    LET d == x.e + r
    IN  IF d >= 0 THEN x.m * 2^d = s ELSE x.m = s * 2^(0 - d)

\* 0 <= x < 1.
InUnit(x) == x.m >= 0 /\ (x.m = 0 \/ (x.e < 0 /\ x.m < 2^(0 - x.e)))

Returned(method) == op = method /\ pc = "idle"

\* C1: in a get_position call a sample of the horizontal channel is always
\* preceded by a sample of the vertical channel of the same call, whether
\* the axes share an ADC resource or not and whatever the ADC answers.
C1_VerticalBeforeHorizontal ==
    op = "get_position" =>
        \A i \in 1..Len(log) :
            log[i].ch = "Chan1" =>
                \E j \in 1..(i - 1) : log[j].ch = "Chan0" /\ log[j].axis = "V"

C1_Witness ==
    /\ op = "get_position"
    /\ shared
    /\ Len(log) = 2
    /\ log[1].ch = "Chan0"
    /\ log[2].ch = "Chan1"

\* C2: when the vertical read of a get_position call answers WouldBlock, the
\* call takes no further sample, never starts the horizontal read, and
\* returns WouldBlock.
C2_VerticalWouldBlockShortCircuits ==
    (op = "get_position" /\ log # <<>> /\ log[1].axis = "V"
        /\ log[1].out = WouldBlock) =>
        /\ Len(log) = 1
        /\ cur = "V"
        /\ pc \in {"release", "idle"}
        /\ (pc = "idle" => result = WouldBlock)

C2_Witness ==
    /\ Returned("get_position")
    /\ Len(log) = 1
    /\ log[1].axis = "V"
    /\ log[1].out = WouldBlock
    /\ result = WouldBlock

\* C3: get_position returns a vertical failure E as
\* Other(VerticalADCError(E)) and, after a vertical value, a horizontal
\* failure F as Other(HorizontalADCError(F)); the tag of a returned error
\* names the axis whose read failed, and the payload is that read's error.
C3_ErrorsTaggedByAxis ==
    Returned("get_position") =>
        /\ (log[1].axis = "V" /\ log[1].out.tag = "Other") =>
                result = Other(VerticalADCError(log[1].out.err))
        /\ (Len(log) = 2 /\ log[1].out.tag = "Ok" /\ log[2].axis = "H"
                /\ log[2].out.tag = "Other") =>
                result = Other(HorizontalADCError(log[2].out.err))
        /\ result.tag = "Other" =>
                LET last == log[Len(log)]
                IN  /\ last.out.tag = "Other"
                    /\ result.err.e = last.out.err
                    /\ result.err.axis = "VerticalADCError" <=> last.axis = "V"
                    /\ result.err.axis = "HorizontalADCError" <=> last.axis = "H"

C3_Witness ==
    /\ Returned("get_position")
    /\ Len(log) = 2
    /\ log[1].out.tag = "Ok"
    /\ log[2].out = Other("E2")
    /\ result = Other(HorizontalADCError("E2"))

\* C5: a caller that keeps retrying get_position after WouldBlock eventually
\* gets a pair or a tagged error, also when both axes share one one-shot ADC.
C5_RetryEventuallyDelivers ==
    (Returned("get_position") /\ result = WouldBlock)
        ~> (Returned("get_position") /\ result.tag \in {"Ok", "Other"})

\* C5, for axes on distinct ADC resources only.
C5_DistinctResourcesDeliver ==
    (~shared /\ Returned("get_position") /\ result = WouldBlock)
        ~> (Returned("get_position") /\ result.tag \in {"Ok", "Other"})

\* C5, for blocking ADCs only.
C5_BlockingAdcDelivers ==
    ((\A a \in AdcSet : kind[a] = "blocking") /\ op = "get_position")
        ~> (Returned("get_position") /\ result.tag \in {"Ok", "Other"})

\* C6: for every resolution r and every word s < 2^r the ADC gives, Axis
\* read, get_vertical and get_horizontal return exactly s / 2^r, which is
\* in [0, 1).
C6_ScalingExact ==
    pc = "scaled" =>
        /\ result.tag = "Ok"
        /\ IsRatio(result.val, raw.val, res[cur])
        /\ InUnit(result.val)

\* Resolution 8, word 255: 255/256.
C6_Witness ==
    /\ pc = "scaled"
    /\ res[cur] = 8
    /\ raw = Ok(255)
    /\ result = Ok(F32(255, 0 - 8))

\* The contexts that hold the mutable reference to the peripheral of ADC
\* resource a, that is, are inside its sample operation.
Accessors(a) ==
    {<<"main", ax>> : ax \in {x \in Axes : /\ pc \in {"sample", "release"}
                                            /\ cur = x
                                            /\ AdcOf(x) = a}}
    \cup (IF ipc \in {"sample", "release"} /\ iacc.adc = a
          THEN {<<"isr", iacc.ch>>} ELSE {})

\* C4: at most one execution context (the vertical read, the horizontal
\* read, the interrupt handler) is inside the sample operation of an ADC
\* resource at a time.
C4_MutualExclusion == \A a \in AdcSet : Cardinality(Accessors(a)) <= 1

\* The interrupt handler is inside the shared ADC while the horizontal read
\* of the caller is about to enter it.
C4_Witness ==
    /\ shared
    /\ pc = "acquire"
    /\ cur = "H"
    /\ Accessors("A0") = {<<"isr", "Chan0">>}

\* C7: when both reads of a get_position call give a word, the call returns
\* the pair (vertical word / 2^vertical resolution, horizontal word /
\* 2^horizontal resolution), in that order.
C7_PositionPairScaled ==
    (Returned("get_position") /\ Len(log) = 2 /\ log[1].out.tag = "Ok"
        /\ log[2].out.tag = "Ok") =>
        /\ result.tag = "Ok"
        /\ log[1].ch = "Chan0"
        /\ log[2].ch = "Chan1"
        /\ IsRatio(result.val[1], log[1].out.val, res["V"])
        /\ IsRatio(result.val[2], log[2].out.val, res["H"])

\* Resolution 8 on both axes of one shared ADC, words 128 and 64: (0.5, 0.25).
C7_Witness ==
    /\ Returned("get_position")
    /\ shared
    /\ res = [ax \in Axes |-> 8]
    /\ Len(log) = 2
    /\ log[1].out = Ok(128)
    /\ log[2].out = Ok(64)
    /\ result = Ok(<<F32(1, 0 - 1), F32(1, 0 - 2)>>)

\* C8: switch_pressed returns Ok(TRUE) exactly when the pin answered high,
\* Ok(FALSE) exactly when it answered low, and the pin's error as it is.
C8_SwitchPassThrough ==
    op = "switch_pressed" =>
        /\ result = Ok(TRUE) <=> pin = "High"
        /\ result = Ok(FALSE) <=> pin = "Low"
        /\ pin \in PinErrors => result = PlainErr(pin)

C8_Witness ==
    /\ op = "switch_pressed"
    /\ pin = "High"
    /\ result = Ok(TRUE)

\* C9: whatever the call before it returned (a pair, WouldBlock from either
\* axis, a tagged error), a get_position call starts at the vertical axis
\* and its first sample is of the vertical channel.
C9_PositionRestartsAtVertical ==
    \A h \in {"none", "pair", "v_wouldblock", "h_wouldblock", "error"} :
        (prev = h /\ op = "get_position") =>
            /\ (log = <<>> /\ pc # "idle") => cur = "V"
            /\ log # <<>> => (log[1].axis = "V" /\ log[1].ch = "Chan0")

\* The call before ended WouldBlock at the horizontal axis after a vertical
\* value, and the retry has sampled the vertical channel again.
C9_Witness ==
    /\ prev = "h_wouldblock"
    /\ op = "get_position"
    /\ log # <<>>
    /\ log[1].axis = "V"
    /\ log[1].out.tag = "Ok"

\* What a single-axis accessor returns for the raw outcome o of its sample.
Untagged(o, r) ==
    IF o.tag = "Ok" THEN r.tag = "Ok" ELSE r = o

\* C10: get_vertical takes exactly one sample, of the vertical channel on
\* the vertical axis's ADC, get_horizontal one of the horizontal channel on
\* the horizontal axis's ADC; each returns WouldBlock as WouldBlock and an
\* ADC error E as Other(E), without a JoystickError tag.
C10_SingleAxisUntagged ==
    \A ax \in Axes :
        LET method == IF ax = "V" THEN "get_vertical" ELSE "get_horizontal"
        IN  op = method =>
                /\ Len(log) <= 1
                /\ pc # "idle" => cur = ax
                /\ \A i \in 1..Len(log) :
                        /\ log[i].axis = ax
                        /\ log[i].ch = ChannelOf(ax)
                        /\ log[i].adc = AdcOf(ax)
                /\ pc = "idle" => (Len(log) = 1 /\ Untagged(log[1].out, result))

C10_Witness ==
    /\ Returned("get_vertical")
    /\ log[1].out = Other("E1")
    /\ result = Other("E1")

\* The joystick holds ADC resource a: the caller's context is in the
\* critical section with the RefCell of a borrowed.
JoystickHolds(a) ==
    /\ cs = "main"
    /\ borrowed[a]
    /\ AdcOf(cur) = a

IsrHolds(a) == ipc \in {"sample", "release"} /\ iacc.adc = a

\* C11: the joystick holds the critical section and the borrow of an ADC
\* resource only from just before the one sample of a read_raw until
\* read_raw returns, whatever the sample answers: with no Axis read in
\* progress it holds nothing, and between the vertical and the horizontal
\* sample of a get_position call the resource is free.
C11_SectionCoversOnlyTheSample ==
    /\ cs = "main" <=> pc \in {"sample", "release"}
    /\ \A a \in AdcSet :
          borrowed[a] <=>
              \/ (pc \in {"sample", "release"} /\ AdcOf(cur) = a)
              \/ IsrHolds(a)
    /\ pc = "sample" => Len(log) = (IF op = "get_position" /\ cur = "H" THEN 1 ELSE 0)
    /\ pc = "release" => (raw # NoResult /\ raw = log[Len(log)].out)
    /\ pc \in {"idle", "acquire"} => \A a \in AdcSet : ~JoystickHolds(a)

\* Between the two samples of a get_position call on a shared ADC the
\* interrupt handler has got hold of the resource.
C11_Witness ==
    /\ shared
    /\ op = "get_position"
    /\ pc = "acquire"
    /\ cur = "H"
    /\ Len(log) = 1
    /\ cs = "isr"
    /\ IsrHolds("A0")

\* C12: a vertical failure ends the get_position call at once, with no
\* horizontal sample; the horizontal read is started only in a call whose
\* vertical read gave a value.
C12_VerticalErrorShortCircuits ==
    op = "get_position" =>
        /\ (log # <<>> /\ log[1].out.tag = "Other") =>
                /\ Len(log) = 1
                /\ cur = "V"
                /\ pc \in {"release", "idle"}
                /\ pc = "idle" => result.tag = "Other"
        /\ (cur = "H" \/ Len(log) = 2) =>
                /\ log[1].axis = "V"
                /\ log[1].out.tag = "Ok"

C12_Witness ==
    /\ Returned("get_position")
    /\ Len(log) = 1
    /\ log[1].out = Other("E1")
    /\ result = Other(VerticalADCError("E1"))

\* C13: get_position returns a pair exactly when, in that same call, the
\* vertical read gave a word and then the horizontal read gave a word, and
\* the pair is made of those two words; a vertical value followed by a
\* horizontal WouldBlock gives plain WouldBlock, and no vertical value is
\* kept for a later call.
C13_PairOnlyFromSameCall ==
    /\ Returned("get_position") =>
          /\ result.tag = "Ok" <=>
                (/\ Len(log) = 2
                 /\ log[1].axis = "V" /\ log[1].out.tag = "Ok"
                 /\ log[2].axis = "H" /\ log[2].out.tag = "Ok")
          /\ result.tag = "Ok" =>
                /\ IsRatio(result.val[1], log[1].out.val, res["V"])
                /\ IsRatio(result.val[2], log[2].out.val, res["H"])
          /\ (Len(log) = 2 /\ log[2].out = WouldBlock) => result = WouldBlock
    /\ (pc = "idle" \/ (op = "get_position" /\ cur = "V")) => v = NoResult

C13_Witness ==
    /\ Returned("get_position")
    /\ Len(log) = 2
    /\ log[1].out.tag = "Ok"
    /\ log[2].out = WouldBlock
    /\ result = WouldBlock
    /\ v = NoResult

\* C14: no retry inside the driver: a finished get_vertical or
\* get_horizontal call has taken exactly one sample and returns its outcome
\* (WouldBlock as WouldBlock, an error as that error); a finished
\* get_position call has taken one sample when the vertical read gave no
\* value and two otherwise; no call takes more, and a sample that answers
\* WouldBlock is the last one of its call.
C14_NoInternalRetry ==
    /\ Len(log) <= (IF op = "get_position" THEN 2 ELSE 1)
    /\ \A i \in 1..Len(log) : log[i].out = WouldBlock => i = Len(log)
    /\ (Returned("get_vertical") \/ Returned("get_horizontal")) =>
          /\ Len(log) = 1
          /\ log[1].out.tag # "Ok" => result = log[1].out
          /\ log[1].out.tag = "Ok" => result.tag = "Ok"
    /\ Returned("get_position") =>
          /\ Len(log) = (IF log[1].out.tag = "Ok" THEN 2 ELSE 1)
          /\ result = WouldBlock <=> log[Len(log)].out = WouldBlock

C14_Witness ==
    /\ Returned("get_horizontal")
    /\ Len(log) = 1
    /\ log[1].out = WouldBlock
    /\ result = WouldBlock

\* C15: for a resolution r in 0..31 Axis::new neither panics nor overflows
\* u32 in 2^r, and the scale factor it stores is 1 / 2^r, finite and
\* strictly positive.
C15_ConstructionInRange ==
    /\ pc = "panicked" => res[cur] \notin 0..31
    /\ \A ax \in Axes :
          (res[ax] \in 0..31) =>
              /\ ~Pow2Overflows(res[ax])
              /\ step[ax] # NoResult =>
                    /\ IsFinite(step[ax])
                    /\ step[ax].m > 0
                    /\ IsRatio(step[ax], 1, res[ax])
    /\ (\A ax \in Axes : res[ax] \in 0..31) =>
          (pc = "idle" <=> \A ax \in Axes : step[ax] # NoResult)

\* A joystick built with resolutions 31 and 0: steps 2^-31 and 1.
C15_Witness ==
    /\ pc = "idle"
    /\ res = [ax \in Axes |-> IF ax = "V" THEN 31 ELSE 0]
    /\ step["V"] = F32(1, 0 - 31)
    /\ step["H"] = F32(1, 0)

\* With distinct ADC resources: the resource of the vertical axis, of the
\* horizontal axis, and the resource a read of axis ax must leave alone.
OwnAdc(ax) == IF ax = "V" THEN "A0" ELSE "A1"

OtherAdc(ax) == IF ax = "V" THEN "A1" ELSE "A0"

\* C16: with distinct ADC resources every step of a read of one axis leaves
\* the other axis's resource as it was (its borrow flag and its pending
\* conversion), gives back the critical section when it returns, and the
\* sample it takes is an answer of its own resource to a read of its own
\* channel.
C16_DistinctResourcesIndependent ==
    [][(~shared /\ pc \in {"acquire", "sample", "release"} /\ pc' # pc) =>
          /\ conv'[OtherAdc(cur)] = conv[OtherAdc(cur)]
          /\ borrowed'[OtherAdc(cur)] = borrowed[OtherAdc(cur)]
          /\ pc = "acquire" => borrowed'[OwnAdc(cur)]
          /\ pc = "release" => (~borrowed'[OwnAdc(cur)] /\ cs' = "none")
          /\ pc = "sample" =>
                LET e == log'[Len(log')]
                    a == OwnAdc(cur)
                IN  /\ Len(log') = Len(log) + 1
                    /\ e.adc = a
                    /\ e.axis = cur
                    /\ raw' = e.out
                    /\ \E r \in AdcResponses(kind[a], conv[a], ChannelOf(cur)) :
                          e.out = r.out /\ conv'[a] = r.conv
      ]_vars

\* A retry's vertical read ran on its own resource while the horizontal
\* resource kept the conversion the call before had started.
C16_Witness ==
    /\ ~shared
    /\ op = "get_position"
    /\ prev = "h_wouldblock"
    /\ pc = "release"
    /\ cur = "V"
    /\ log[1].adc = "A0"
    /\ conv["A1"].ch = "Chan1"

\* A step that is a switch_pressed call.
SwitchStep ==
    /\ pc = "idle"
    /\ pc' = "idle"
    /\ op' = "switch_pressed"
    /\ <<op, pin, result, log, prev>>' # <<op, pin, result, log, prev>>

\* C17: a switch_pressed call takes no ADC sample and changes neither an
\* axis, nor an ADC resource, nor the critical section; it returns a
\* boolean or the pin's error, never WouldBlock; and no get_vertical,
\* get_horizontal or get_position call queries the pin.
C17_SwitchTouchesOnlyTheSwitch ==
    /\ [](op = "switch_pressed" =>
            /\ pc = "idle"
            /\ log = <<>>
            /\ pin \in PinAnswers
            /\ result # WouldBlock
            /\ result \in {Ok(TRUE), Ok(FALSE)} \cup {PlainErr(e) : e \in PinErrors})
    /\ [](op \in {"get_vertical", "get_horizontal", "get_position"} =>
            pin = "none")
    /\ [][SwitchStep =>
            UNCHANGED <<shared, res, step, kind, conv, borrowed, cs, cur, raw,
                        v, ipc, iacc>>]_vars

\* The switch was read while the shared ADC was busy with the horizontal
\* conversion the last get_position call started.
C17_Witness ==
    /\ op = "switch_pressed"
    /\ pin = "Low"
    /\ result = Ok(FALSE)
    /\ shared
    /\ prev = "h_wouldblock"
    /\ conv["A0"] = Converting("Chan1")

\* C18: borrow_mut in read_raw never finds the RefCell borrowed, in the
\* caller or in the interrupt handler: a borrow exists only inside the
\* critical section of the context that took it, so none is outstanding
\* when a critical section begins.
C18_NoBorrowConflict ==
    /\ pc # "panicked"
    /\ ipc # "panicked"
    /\ cs = "none" => \A a \in AdcSet : ~borrowed[a]
    /\ \A a \in AdcSet :
          borrowed[a] =>
              \/ (cs = "main" /\ pc \in {"sample", "release"} /\ AdcOf(cur) = a)
              \/ (cs = "isr" /\ IsrHolds(a))

\* On a shared ADC the horizontal read has borrowed the cell after the
\* interrupt handler had it: the handler's read of the vertical channel,
\* taken between the caller's two reads, is the conversion in progress.
C18_Witness ==
    /\ shared
    /\ op = "get_position"
    /\ pc = "sample"
    /\ cur = "H"
    /\ cs = "main"
    /\ borrowed["A0"]
    /\ ipc = "idle"
    /\ conv["A0"] = Converting("Chan0")

====
